---- MODULE Spec2Model ----
(***************************************************************************)
(* Model of the creatine tracker's core (src/src/lib/creatine.ts): the     *)
(* calendar utilities, the save-data coercion/migration and the streak     *)
(* and history engine.                                                     *)
(*                                                                         *)
(* Representation.                                                         *)
(*  - A JavaScript string is a sequence of one-character strings, so that  *)
(*    the regular expression of isISODateKey, split('-'), Number, String   *)
(*    and padStart are modelled character by character.                    *)
(*  - A Date is the number of whole local days since 1970-01-01.  Every    *)
(*    Date the library builds is at 12:00 local time and setDate keeps the *)
(*    hour, so the time of day is constant and is left out.  The platform  *)
(*    calendar is the proleptic Gregorian calendar, and the local time     *)
(*    zone is taken to have a local noon on every calendar day.            *)
(*  - A JavaScript value of unknown type is a record [t |-> tag, v |->     *)
(*    payload]; tag is what typeof and === distinguish.                    *)
(***************************************************************************)
EXTENDS Integers, Sequences, FiniteSets, TLC

VARIABLES
    call,            \* the library call under way: its function and arguments
    ret,             \* its result, once it has run
    walk,            \* computeCurrentStreak run statement by statement: its locals
    phase,           \* "closed": no page; "open": the App is mounted
    storage,         \* the localStorage item creatine-tracker:v1
    clock,           \* the device's local day (a Date at noon)
    appSave,         \* App state `save`: the record
    appToday,        \* App's `today`: getTodayKey() as of the last render
    startDateDraft,  \* App state: the value of the initial-date input
    importError,     \* App state: the import error shown, or "none"
    reading,         \* whether importFromFile is awaiting the text of a file
    queue,           \* the state updates React has queued for save
    last             \* the handler that has just run, what it was given and what it did

libVars == <<call, ret, walk>>
appVars == <<phase, storage, clock, appSave, appToday, startDateDraft, importError, reading,
             queue, last>>
vars == <<call, ret, walk, phase, storage, clock, appSave, appToday, startDateDraft, importError,
          reading, queue, last>>

(***************************************************************************)
(* Strings                                                                 *)
(***************************************************************************)
Digits == <<"0", "1", "2", "3", "4", "5", "6", "7", "8", "9">>

IsDigit(c) == \E i \in 1..10 : Digits[i] = c

DigitVal(c) == (CHOOSE i \in 1..10 : Digits[i] = c) - 1

\* String(n) for an integer n >= 0: its decimal digits, no padding.
RECURSIVE String(_)
String(n) == IF n < 10 THEN <<Digits[n + 1]>>
             ELSE String(n \div 10) \o <<Digits[(n % 10) + 1]>>

\* s.padStart(width, '0')
RECURSIVE padStart(_, _)
padStart(s, width) == IF Len(s) >= width THEN s ELSE padStart(<<"0">> \o s, width)

\* Number(s) for a string of decimal digits (Number('') is 0).
RECURSIVE Number(_)
Number(s) == IF s = <<>> THEN 0
             ELSE 10 * Number(SubSeq(s, 1, Len(s) - 1)) + DigitVal(s[Len(s)])

\* s.split('-'): the pieces of s between dashes.
RECURSIVE SplitFrom(_, _, _)
SplitFrom(s, i, piece) ==
    IF i > Len(s) THEN <<piece>>
    ELSE IF s[i] = "-" THEN <<piece>> \o SplitFrom(s, i + 1, <<>>)
    ELSE SplitFrom(s, i + 1, Append(piece, s[i]))

split(s) == SplitFrom(s, 1, <<>>)

pad2(n) == padStart(String(n), 2)

(***************************************************************************)
(* The platform's Date: local calendar fields <-> day number               *)
(***************************************************************************)
\* Day number of the civil date (y, m, d), m in 1..12, d any integer
\* (days outside the month run over into the neighbouring months).
DaysFromCivil(y, m, d) ==
    LET yy  == IF m <= 2 THEN y - 1 ELSE y
        era == yy \div 400
        yoe == yy - era * 400
        mp  == IF m > 2 THEN m - 3 ELSE m + 9
        doy == (153 * mp + 2) \div 5 + d - 1
        doe == yoe * 365 + yoe \div 4 - yoe \div 100 + doy
    IN  era * 146097 + doe - 719468

\* The civil date [y, m, d] of day number n.
CivilFromDays(n) ==
    LET z   == n + 719468
        era == z \div 146097
        doe == z - era * 146097
        yoe == (doe - doe \div 1460 + doe \div 36524 - doe \div 146096) \div 365
        doy == doe - (365 * yoe + yoe \div 4 - yoe \div 100)
        mp  == (5 * doy + 2) \div 153
        d   == doy - (153 * mp + 2) \div 5 + 1
        m   == IF mp < 10 THEN mp + 3 ELSE mp - 9
        y   == yoe + era * 400 + (IF m <= 2 THEN 1 ELSE 0)
    IN  [y |-> y, m |-> m, d |-> d]

\* new Date(year, monthIndex, day, 12, 0, 0, 0): a year of 0..99 means
\* 1900 + year, a month index outside 0..11 carries into the year, a day
\* outside the month carries into the months.
NewDate(year, monthIndex, day) ==
    LET fullYear == IF year >= 0 /\ year <= 99 THEN 1900 + year ELSE year
        ym       == fullYear + (monthIndex \div 12)
        mn       == monthIndex % 12
    IN  DaysFromCivil(ym, mn + 1, day)

getFullYear(date) == CivilFromDays(date).y
getMonth(date) == CivilFromDays(date).m - 1
getDate(date) == CivilFromDays(date).d

\* date.setDate(day): same year and month, the given day of month with
\* carry; the year of an existing Date is taken as it is.
setDate(date, day) ==
    LET c == CivilFromDays(date) IN DaysFromCivil(c.y, c.m, day)

(***************************************************************************)
(* Calendar utilities                                                      *)
(***************************************************************************)
\* /^\d{4}-\d{2}-\d{2}$/.test(s)
MatchesDateRegex(s) ==
    /\ Len(s) = 10
    /\ \A i \in {1, 2, 3, 4, 6, 7, 9, 10} : IsDigit(s[i])
    /\ s[5] = "-"
    /\ s[8] = "-"

\* toISODateKeyLocal that writes getMonth() as it is, the month counted
\* from 0.
toISODateKeyLocal_ZeroBasedMonth(d) ==
    LET y   == getFullYear(d)
        m   == getMonth(d)
        day == getDate(d)
    IN  String(y) \o <<"-">> \o pad2(m) \o <<"-">> \o pad2(day)

toISODateKeyLocal(d) ==
    LET y   == getFullYear(d)
        m   == getMonth(d) + 1
        day == getDate(d)
    IN  String(y) \o <<"-">> \o pad2(m) \o <<"-">> \o pad2(day)

makeLocalNoonDateFromISO(key) ==
    LET parts == split(key)
        y     == Number(parts[1])
        m     == Number(parts[2])
        d     == Number(parts[3])
    IN  NewDate(y, m - 1, d)

\* addDaysLocalNoon that returns the copy without moving it.
addDaysLocalNoon_SameDay(d, deltaDays) == d

addDaysLocalNoon(d, deltaDays) == setDate(d, getDate(d) + deltaDays)

(***************************************************************************)
(* JavaScript values of unknown type                                       *)
(***************************************************************************)
JsUndefined == [t |-> "undefined", v |-> 0]
JsNull == [t |-> "null", v |-> 0]
JsBoolean(b) == [t |-> "boolean", v |-> b]
\* A finite number; timestamps are small integers here.
JsNumber(n) == [t |-> "number", v |-> n]
\* The number Infinity, which JSON.parse returns for a literal such as 1e999.
JsInfinity == [t |-> "infinity", v |-> 0]
JsString(s) == [t |-> "string", v |-> s]
\* An array of the elements of sequence a.
JsArray(a) == [t |-> "array", v |-> a]
\* An object with own properties DOMAIN f, each a string, and values f[k].
JsObject(f) == [t |-> "object", v |-> f]

\* typeof x
typeof(x) ==
    CASE x.t = "undefined" -> "undefined"
      [] x.t = "null"      -> "object"
      [] x.t = "boolean"   -> "boolean"
      [] x.t = "number"    -> "number"
      [] x.t = "infinity"  -> "number"
      [] x.t = "string"    -> "string"
      [] x.t = "array"     -> "object"
      [] x.t = "object"    -> "object"

\* !x is false
Truthy(x) ==
    CASE x.t = "undefined" -> FALSE
      [] x.t = "null"      -> FALSE
      [] x.t = "boolean"   -> x.v
      [] x.t = "number"    -> x.v # 0
      [] x.t = "infinity"  -> TRUE
      [] x.t = "string"    -> x.v # <<>>
      [] x.t = "array"     -> TRUE
      [] x.t = "object"    -> TRUE

\* The own enumerable string-keyed properties of an object or array, as a
\* function from key to value: an array's keys are its indices in decimal.
OwnProperties(x) ==
    IF x.t = "object" THEN x.v
    ELSE [k \in {String(i - 1) : i \in 1..Len(x.v)} |-> x.v[Number(k) + 1]]

\* obj.name for an obj that is an object or an array, name none of an
\* array's built-in properties: undefined when there is no such property.
GetProperty(obj, name) ==
    IF name \in DOMAIN OwnProperties(obj) THEN OwnProperties(obj)[name] ELSE JsUndefined

\* What Object.entries(x) does: a TypeError for undefined and null, else
\* the own properties (the order of the pairs is left out: each key occurs
\* once, and the loops over them write each key at most once).
ObjectEntries(x) ==
    IF x.t \in {"undefined", "null"} THEN [threw |-> TRUE, entries |-> <<>>]
    ELSE IF x.t \in {"object", "array"} THEN [threw |-> FALSE, entries |-> OwnProperties(x)]
    ELSE [threw |-> FALSE, entries |-> <<>>]

\* The property names of a save file.
P_version == <<"v", "e", "r", "s", "i", "o", "n">>
P_startDate == <<"s", "t", "a", "r", "t", "D", "a", "t", "e">>
P_taken == <<"t", "a", "k", "e", "n">>
P_updatedAt == <<"u", "p", "d", "a", "t", "e", "d", "A", "t">>

(***************************************************************************)
(* Save-data coercion and migration                                        *)
(***************************************************************************)
isISODateKey(x) == IF typeof(x) # "string" THEN FALSE ELSE MatchesDateRegex(x.v)

\* The taken map the version-2 branch builds from the entries of takenRaw.
TakenV2_MigratesTrue(entries) ==
    LET kept == {k \in DOMAIN entries :
                    /\ isISODateKey(JsString(k))
                    /\ (typeof(entries[k]) = "number" \/ entries[k] = JsNull
                           \/ entries[k] = JsBoolean(TRUE))}
    IN  [k \in kept |-> IF typeof(entries[k]) = "number" THEN entries[k] ELSE JsNull]

TakenV2(entries) ==
    LET kept == {k \in DOMAIN entries :
                    /\ isISODateKey(JsString(k))
                    /\ (typeof(entries[k]) = "number" \/ entries[k] = JsNull)}
    IN  [k \in kept |-> IF typeof(entries[k]) = "number" THEN entries[k] ELSE JsNull]

\* The taken map the version-1 branch builds, with the test v === true
\* weakened to the truthiness of v.
TakenV1_Truthy(entries) ==
    LET kept == {k \in DOMAIN entries :
                    isISODateKey(JsString(k)) /\ Truthy(entries[k])}
    IN  [k \in kept |-> JsNull]

TakenV1(entries) ==
    LET kept == {k \in DOMAIN entries :
                    isISODateKey(JsString(k)) /\ entries[k] = JsBoolean(TRUE)}
    IN  [k \in kept |-> JsNull]

\* updatedAt stamped with Date.now() whatever the input holds.
UpdatedAtOf_AlwaysNow(obj, now) == JsNumber(now)

\* typeof obj.updatedAt === 'number' ? obj.updatedAt : Date.now()
UpdatedAtOf(obj, now) ==
    IF typeof(GetProperty(obj, P_updatedAt)) = "number"
    THEN GetProperty(obj, P_updatedAt)
    ELSE JsNumber(now)

\* The three outcomes of a call of coerceSave: null, a record, an exception.
CoerceNull == [kind |-> "null"]
CoerceSave(save) == [kind |-> "save", save |-> save]
CoerceThrow == [kind |-> "throw"]

\* coerceSave without the test !takenRaw: typeof null is 'object'.
coerceSave_NoNullTakenGuard(input, now) ==
    IF ~Truthy(input) \/ typeof(input) # "object" THEN CoerceNull
    ELSE IF ~isISODateKey(GetProperty(input, P_startDate)) THEN CoerceNull
    ELSE LET takenRaw == GetProperty(input, P_taken)
             version  == GetProperty(input, P_version)
             es       == ObjectEntries(takenRaw)
         IN  IF typeof(takenRaw) # "object" THEN CoerceNull
             ELSE IF version = JsNumber(2)
             THEN IF es.threw THEN CoerceThrow
                  ELSE CoerceSave([version |-> 2,
                                   startDate |-> GetProperty(input, P_startDate).v,
                                   taken |-> TakenV2(es.entries),
                                   updatedAt |-> UpdatedAtOf(input, now)])
             ELSE IF version = JsNumber(1)
             THEN IF es.threw THEN CoerceThrow
                  ELSE CoerceSave([version |-> 2,
                                   startDate |-> GetProperty(input, P_startDate).v,
                                   taken |-> TakenV1(es.entries),
                                   updatedAt |-> UpdatedAtOf(input, now)])
             ELSE CoerceNull

\* coerceSave(input), with now the value of Date.now() during the call.
coerceSave(input, now) ==
    IF ~Truthy(input) \/ typeof(input) # "object" THEN CoerceNull
    ELSE IF ~isISODateKey(GetProperty(input, P_startDate)) THEN CoerceNull
    ELSE LET takenRaw == GetProperty(input, P_taken)
             version  == GetProperty(input, P_version)
             es       == ObjectEntries(takenRaw)
         IN  IF ~Truthy(takenRaw) \/ typeof(takenRaw) # "object" THEN CoerceNull
             ELSE IF version = JsNumber(2)
             THEN IF es.threw THEN CoerceThrow
                  ELSE CoerceSave([version |-> 2,
                                   startDate |-> GetProperty(input, P_startDate).v,
                                   taken |-> TakenV2(es.entries),
                                   updatedAt |-> UpdatedAtOf(input, now)])
             ELSE IF version = JsNumber(1)
             THEN IF es.threw THEN CoerceThrow
                  ELSE CoerceSave([version |-> 2,
                                   startDate |-> GetProperty(input, P_startDate).v,
                                   taken |-> TakenV1(es.entries),
                                   updatedAt |-> UpdatedAtOf(input, now)])
             ELSE CoerceNull

(***************************************************************************)
(* Comparison of keys, earliest start date                                 *)
(***************************************************************************)
\* The characters of the keys in the order of their code units.
CodeOrder == <<"-", "0", "1", "2", "3", "4", "5", "6", "7", "8", "9">>

CharCode(c) == CHOOSE i \in 1..Len(CodeOrder) : CodeOrder[i] = c

\* a < b on strings: the first differing character decides, a proper
\* prefix is smaller.
RECURSIVE StringLess(_, _)
StringLess(a, b) ==
    IF b = <<>> THEN FALSE
    ELSE IF a = <<>> THEN TRUE
    ELSE IF a[1] = b[1] THEN StringLess(Tail(a), Tail(b))
    ELSE CharCode(a[1]) < CharCode(b[1])

compareISODate(a, b) == IF StringLess(a, b) THEN -1 ELSE IF StringLess(b, a) THEN 1 ELSE 0

\* ensureStartDate that takes the candidate without comparing.
ensureStartDate_AlwaysCandidate(save, candidate) == [save EXCEPT !.startDate = candidate]

ensureStartDate(save, candidate) ==
    IF save.startDate = <<>> THEN [save EXCEPT !.startDate = candidate]
    ELSE IF compareISODate(candidate, save.startDate) < 0
    THEN [save EXCEPT !.startDate = candidate]
    ELSE save

(***************************************************************************)
(* JSON text, as the sequence of its tokens (white space left out)         *)
(***************************************************************************)
Punct(c) == [k |-> c, v |-> 0]
NumberToken(n) == [k |-> "number", v |-> n]
StringToken(str) == [k |-> "string", v |-> str]

\* The elements of a finite set in some fixed order.
RECURSIVE SeqOfSet(_)
SeqOfSet(S) == IF S = {} THEN <<>>
               ELSE LET x == CHOOSE x \in S : TRUE IN <<x>> \o SeqOfSet(S \ {x})

\* JSON.stringify(x) for x other than undefined: Infinity is written as
\* null, an undefined array element as null, a property whose value is
\* undefined is left out.
RECURSIVE JSONstringify(_), StringifyElements(_, _), StringifyMembers(_, _, _, _)
JSONstringify(x) ==
    CASE x.t = "null"      -> <<Punct("null")>>
      [] x.t = "undefined" -> <<Punct("null")>>
      [] x.t = "infinity"  -> <<Punct("null")>>
      [] x.t = "boolean"   -> <<Punct(IF x.v THEN "true" ELSE "false")>>
      [] x.t = "number"    -> <<NumberToken(x.v)>>
      [] x.t = "string"    -> <<StringToken(x.v)>>
      [] x.t = "array"     -> <<Punct("[")>> \o StringifyElements(x.v, 1) \o <<Punct("]")>>
      [] x.t = "object"    ->
            <<Punct("{")>>
               \o StringifyMembers(x.v, SeqOfSet({k \in DOMAIN x.v : x.v[k] # JsUndefined}),
                                   1, TRUE)
               \o <<Punct("}")>>

StringifyElements(a, i) ==
    IF i > Len(a) THEN <<>>
    ELSE (IF i > 1 THEN <<Punct(",")>> ELSE <<>>)
            \o JSONstringify(a[i]) \o StringifyElements(a, i + 1)

StringifyMembers(f, keys, i, first) ==
    IF i > Len(keys) THEN <<>>
    ELSE (IF first THEN <<>> ELSE <<Punct(",")>>)
            \o <<StringToken(keys[i]), Punct(":")>> \o JSONstringify(f[keys[i]])
            \o StringifyMembers(f, keys, i + 1, FALSE)

ParseFailure == [ok |-> FALSE, value |-> JsUndefined, next |-> 0]
Parsed(value, next) == [ok |-> TRUE, value |-> value, next |-> next]

KindAt(toks, i) == IF i >= 1 /\ i <= Len(toks) THEN toks[i].k ELSE "end"

\* A recursive-descent parser of a token sequence: the value that starts at
\* token i and the position after it, or a failure.  The token 1e999 is a
\* number literal too large for a double, read as Infinity.
RECURSIVE ParseValue(_, _), ParseElements(_, _, _), ParseMembers(_, _, _)
ParseValue(toks, i) ==
    LET kind == KindAt(toks, i)
    IN  CASE kind = "null"   -> Parsed(JsNull, i + 1)
          [] kind = "true"   -> Parsed(JsBoolean(TRUE), i + 1)
          [] kind = "false"  -> Parsed(JsBoolean(FALSE), i + 1)
          [] kind = "number" -> Parsed(JsNumber(toks[i].v), i + 1)
          [] kind = "1e999"  -> Parsed(JsInfinity, i + 1)
          [] kind = "string" -> Parsed(JsString(toks[i].v), i + 1)
          [] kind = "["      -> IF KindAt(toks, i + 1) = "]"
                                THEN Parsed(JsArray(<<>>), i + 2)
                                ELSE ParseElements(toks, i + 1, <<>>)
          [] kind = "{"      -> IF KindAt(toks, i + 1) = "}"
                                THEN Parsed(JsObject(<<>>), i + 2)
                                ELSE ParseMembers(toks, i + 1, <<>>)
          [] OTHER           -> ParseFailure

ParseElements(toks, i, acc) ==
    LET r == ParseValue(toks, i)
    IN  IF ~r.ok THEN ParseFailure
        ELSE IF KindAt(toks, r.next) = ","
        THEN ParseElements(toks, r.next + 1, Append(acc, r.value))
        ELSE IF KindAt(toks, r.next) = "]"
        THEN Parsed(JsArray(Append(acc, r.value)), r.next + 1)
        ELSE ParseFailure

\* A later member of the same name replaces an earlier one.
ParseMembers(toks, i, acc) ==
    IF KindAt(toks, i) # "string" \/ KindAt(toks, i + 1) # ":" THEN ParseFailure
    ELSE LET r == ParseValue(toks, i + 2)
             f == [k \in DOMAIN acc \cup {toks[i].v} |->
                      IF k = toks[i].v THEN r.value ELSE acc[k]]
         IN  IF ~r.ok THEN ParseFailure
             ELSE IF KindAt(toks, r.next) = ","
             THEN ParseMembers(toks, r.next + 1, f)
             ELSE IF KindAt(toks, r.next) = "}"
             THEN Parsed(JsObject(f), r.next + 1)
             ELSE ParseFailure

\* JSON.parse(text): the value the whole text spells, or a SyntaxError.
JSONparse(toks) ==
    LET r == ParseValue(toks, 1)
    IN  IF r.ok /\ r.next = Len(toks) + 1
        THEN [threw |-> FALSE, value |-> r.value]
        ELSE [threw |-> TRUE, value |-> JsUndefined]

\* A SaveDataV2 as the object JSON.stringify is given.
SaveAsObject(save) ==
    JsObject([k \in {P_version, P_startDate, P_taken, P_updatedAt} |->
                 CASE k = P_version   -> JsNumber(save.version)
                   [] k = P_startDate -> JsString(save.startDate)
                   [] k = P_taken     -> JsObject(save.taken)
                   [] k = P_updatedAt -> save.updatedAt])

(***************************************************************************)
(* Streak / history engine                                                 *)
(***************************************************************************)
\* HistoryLoop with the loop test d > startD: the start day is left out.
RECURSIVE HistoryLoop_ExclusiveStart(_, _, _)
HistoryLoop_ExclusiveStart(d, startD, out) ==
    IF d > startD
    THEN HistoryLoop_ExclusiveStart(addDaysLocalNoon(d, -1), startD,
                                    Append(out, toISODateKeyLocal(d)))
    ELSE out

\* for (let d = endD; d >= startD; d = addDaysLocalNoon(d, -1)) out.push(...)
RECURSIVE HistoryLoop(_, _, _)
HistoryLoop(d, startD, out) ==
    IF d >= startD
    THEN HistoryLoop(addDaysLocalNoon(d, -1), startD, Append(out, toISODateKeyLocal(d)))
    ELSE out

buildHistoryKeysInclusive(start, end) ==
    LET startD == makeLocalNoonDateFromISO(start)
        endD   == makeLocalNoonDateFromISO(end)
    IN  HistoryLoop(endD, startD, <<>>)

\* isTaken by the truthiness of the stored value: null and timestamp 0
\* read as not taken.
isTaken_Truthy(save, key) == key \in DOMAIN save.taken /\ Truthy(save.taken[key])

\* Object.prototype.hasOwnProperty.call(save.taken, key)
isTaken(save, key) == key \in DOMAIN save.taken

\* The null of an absent start / end of a StreakInfo: no string equals it,
\* since no character of a string is "null".
NoKey == <<"null">>

\* while (true) { if (!isTaken(save, key)) break; len += 1; cursor = cursor - 1 day }
RECURSIVE StreakWalk(_, _, _)
StreakWalk(save, cursor, len) ==
    IF ~isTaken(save, toISODateKeyLocal(cursor))
    THEN [len |-> len, cursor |-> cursor]
    ELSE StreakWalk(save, addDaysLocalNoon(cursor, -1), len + 1)

\* computeCurrentStreak that always anchors at today: a day not yet logged
\* resets the streak.
computeCurrentStreak_AnchorToday(save, today) ==
    LET startCursor == makeLocalNoonDateFromISO(today)
        startKey    == toISODateKeyLocal(startCursor)
    IN  IF ~isTaken(save, startKey)
        THEN [length |-> 0, start |-> NoKey, end |-> NoKey]
        ELSE LET w           == StreakWalk(save, startCursor, 0)
                 runStartKey == toISODateKeyLocal(addDaysLocalNoon(w.cursor, 1))
                 runEndKey   == toISODateKeyLocal(startCursor)
             IN  [length |-> w.len, start |-> runStartKey, end |-> runEndKey]

\* computeCurrentStreak that takes the day the walk stopped at as the run's
\* start, without stepping forward one day.
computeCurrentStreak_StartAtCursor(save, today) ==
    LET todayTaken  == isTaken(save, today)
        startCursor == IF todayTaken
                       THEN makeLocalNoonDateFromISO(today)
                       ELSE addDaysLocalNoon(makeLocalNoonDateFromISO(today), -1)
        startKey    == toISODateKeyLocal(startCursor)
    IN  IF ~isTaken(save, startKey)
        THEN [length |-> 0, start |-> NoKey, end |-> NoKey]
        ELSE LET w           == StreakWalk(save, startCursor, 0)
                 runStartKey == toISODateKeyLocal(w.cursor)
                 runEndKey   == toISODateKeyLocal(startCursor)
             IN  [length |-> w.len, start |-> runStartKey, end |-> runEndKey]

\* computeCurrentStreak without the early return for an anchor that is not
\* taken.
computeCurrentStreak_NoEarlyReturn(save, today) ==
    LET todayTaken  == isTaken(save, today)
        startCursor == IF todayTaken
                       THEN makeLocalNoonDateFromISO(today)
                       ELSE addDaysLocalNoon(makeLocalNoonDateFromISO(today), -1)
        w           == StreakWalk(save, startCursor, 0)
        runStartKey == toISODateKeyLocal(addDaysLocalNoon(w.cursor, 1))
        runEndKey   == toISODateKeyLocal(startCursor)
    IN  [length |-> w.len, start |-> runStartKey, end |-> runEndKey]

computeCurrentStreak(save, today) ==
    LET todayTaken  == isTaken(save, today)
        startCursor == IF todayTaken
                       THEN makeLocalNoonDateFromISO(today)
                       ELSE addDaysLocalNoon(makeLocalNoonDateFromISO(today), -1)
        startKey    == toISODateKeyLocal(startCursor)
    IN  IF ~isTaken(save, startKey)
        THEN [length |-> 0, start |-> NoKey, end |-> NoKey]
        ELSE LET w           == StreakWalk(save, startCursor, 0)
                 runStartKey == toISODateKeyLocal(addDaysLocalNoon(w.cursor, 1))
                 runEndKey   == toISODateKeyLocal(startCursor)
             IN  [length |-> w.len, start |-> runStartKey, end |-> runEndKey]

\* keys.slice().reverse()
reverse(s) == [i \in 1..Len(s) |-> s[Len(s) + 1 - i]]

\* BestStep that replaces the best run on runLen >= bestLen: of several
\* longest runs the last one wins.
BestStep_TiesLast(save, st, k) ==
    IF isTaken(save, k)
    THEN LET runStart == IF st.runLen = 0 THEN k ELSE st.runStart
             runLen   == st.runLen + 1
         IN  IF runLen >= st.bestLen
             THEN [bestLen |-> runLen, bestStart |-> runStart, bestEnd |-> k,
                   runLen |-> runLen, runStart |-> runStart]
             ELSE [st EXCEPT !.runLen = runLen, !.runStart = runStart]
    ELSE [st EXCEPT !.runLen = 0, !.runStart = NoKey]

\* One iteration of the scan of computeBestStreak over key k; st holds the
\* loop's five variables.
BestStep(save, st, k) ==
    IF isTaken(save, k)
    THEN LET runStart == IF st.runLen = 0 THEN k ELSE st.runStart
             runLen   == st.runLen + 1
         IN  IF runLen > st.bestLen
             THEN [bestLen |-> runLen, bestStart |-> runStart, bestEnd |-> k,
                   runLen |-> runLen, runStart |-> runStart]
             ELSE [st EXCEPT !.runLen = runLen, !.runStart = runStart]
    ELSE [st EXCEPT !.runLen = 0, !.runStart = NoKey]

RECURSIVE BestLoop(_, _, _, _)
BestLoop(save, keysAsc, i, st) ==
    IF i > Len(keysAsc) THEN st
    ELSE BestLoop(save, keysAsc, i + 1, BestStep(save, st, keysAsc[i]))

computeBestStreak(save, start, end) ==
    LET keysAsc == reverse(buildHistoryKeysInclusive(start, end))
        st0     == [bestLen |-> 0, bestStart |-> NoKey, bestEnd |-> NoKey,
                    runLen |-> 0, runStart |-> NoKey]
        st      == BestLoop(save, keysAsc, 1, st0)
    IN  [length |-> st.bestLen, start |-> st.bestStart, end |-> st.bestEnd]

(***************************************************************************)
(* Inputs of the library calls                                             *)
(***************************************************************************)
\* The largest number of consecutive calendar days a record's entries span.
WindowLen == 5

\* How many days after the last possible entry "today" may lie.
TodayAhead == 2

\* The key of year y, month m, day d, written out digit by digit.
Key(y, m, d) ==
    <<Digits[(y \div 1000) + 1], Digits[((y \div 100) % 10) + 1],
      Digits[((y \div 10) % 10) + 1], Digits[(y % 10) + 1], "-",
      Digits[(m \div 10) + 1], Digits[(m % 10) + 1], "-",
      Digits[(d \div 10) + 1], Digits[(d % 10) + 1]>>

\* Three stretches of consecutive calendar days, listed by hand: across a
\* year's end, across 29 February of a leap year, across the end of
\* February of a common year.
Calendars ==
    << <<Key(2023, 12, 29), Key(2023, 12, 30), Key(2023, 12, 31), Key(2024, 1, 1),
         Key(2024, 1, 2), Key(2024, 1, 3), Key(2024, 1, 4), Key(2024, 1, 5),
         Key(2024, 1, 6), Key(2024, 1, 7)>>,
       <<Key(2024, 2, 27), Key(2024, 2, 28), Key(2024, 2, 29), Key(2024, 3, 1),
         Key(2024, 3, 2), Key(2024, 3, 3), Key(2024, 3, 4), Key(2024, 3, 5),
         Key(2024, 3, 6), Key(2024, 3, 7)>>,
       <<Key(2023, 2, 26), Key(2023, 2, 27), Key(2023, 2, 28), Key(2023, 3, 1),
         Key(2023, 3, 2), Key(2023, 3, 3), Key(2023, 3, 4), Key(2023, 3, 5),
         Key(2023, 3, 6), Key(2023, 3, 7)>> >>

\* A key that isISODateKey accepts and that names no calendar day, one per
\* stretch; a record may hold it (an imported file may).
NoSuchDay == <<Key(2023, 12, 32), Key(2024, 2, 30), Key(2023, 2, 29)>>

\* The days of stretch c a record may mark, and the days "today" may be.
EntryDays(c) == {Calendars[c][i] : i \in 1..WindowLen}
RangeDays(c) == {Calendars[c][i] : i \in 1..(WindowLen + TodayAhead)}

\* The position of calendar day k in stretch c.
DayIndex(c, k) == CHOOSE i \in 1..Len(Calendars[c]) : Calendars[c][i] = k

\* The records whose entries lie in stretch c: any set of its days, with or
\* without the key that names no day, every entry with the same value, one
\* of vals.
Saves(c, vals) ==
    { [version |-> 2, startDate |-> Calendars[c][1],
       taken |-> [k \in days \cup extra |-> val], updatedAt |-> JsNumber(0)] :
         days \in SUBSET EntryDays(c),
         extra \in {{}, {NoSuchDay[c]}},
         val \in vals }

(***************************************************************************)
(* The library calls: a call is drawn with its arguments, then it runs     *)
(***************************************************************************)
CalendarIds == 1..Len(Calendars)

CurrentStreakCalls ==
    UNION { { [fn |-> "computeCurrentStreak", cal |-> c, save |-> save, today |-> today] :
                save \in Saves(c, {JsNull, JsNumber(0)}), today \in RangeDays(c) } :
            c \in CalendarIds }

BestStreakCalls ==
    UNION { { [fn |-> "computeBestStreak", cal |-> c, save |-> save,
               start |-> start, end |-> end] :
                save \in Saves(c, {JsNull}), start \in RangeDays(c), end \in RangeDays(c) } :
            c \in CalendarIds }

HistoryCalls ==
    UNION { { [fn |-> "buildHistoryKeysInclusive", cal |-> c, start |-> start, end |-> end] :
                start \in RangeDays(c), end \in RangeDays(c) } : c \in CalendarIds }

\* Strings that isISODateKey accepts, put together from these years, months
\* and days: real days, months 00 and 13, days 00 and past the month's end,
\* years below 1000.
YearStrings ==
    { <<"0", "0", "0", "0">>, <<"0", "0", "5", "0">>, <<"0", "0", "9", "9">>,
      <<"0", "1", "0", "0">>, <<"0", "9", "9", "9">>, <<"1", "0", "0", "0">>,
      <<"1", "9", "0", "0">>, <<"2", "0", "0", "0">>, <<"2", "0", "2", "3">>,
      <<"2", "0", "2", "4">>, <<"2", "1", "0", "0">>, <<"9", "9", "9", "9">> }

MonthStrings ==
    { <<"0", "0">>, <<"0", "1">>, <<"0", "2">>, <<"0", "3">>, <<"0", "4">>, <<"0", "6">>,
      <<"0", "9">>, <<"1", "1">>, <<"1", "2">>, <<"1", "3">>, <<"9", "9">> }

DayStrings ==
    { <<"0", "0">>, <<"0", "1">>, <<"2", "8">>, <<"2", "9">>, <<"3", "0">>, <<"3", "1">>,
      <<"3", "2">>, <<"9", "9">> }

KeyStrings ==
    { y \o <<"-">> \o m \o <<"-">> \o d : y \in YearStrings, m \in MonthStrings, d \in DayStrings }

RoundTripCalls ==
    { [fn |-> "keyRoundTrip", key |-> k] : k \in {k \in KeyStrings : MatchesDateRegex(k)} }

\* The values of Date.now() during a call.
Nows == {8, 9}

\* A field a save file does not hold.
Absent == [t |-> "absent", v |-> 0]

\* The object with the four save-file properties that are not Absent.
MakeObject(version, startDate, taken, updatedAt) ==
    LET field == [k \in {P_version, P_startDate, P_taken, P_updatedAt} |->
                     CASE k = P_version   -> version
                       [] k = P_startDate -> startDate
                       [] k = P_taken     -> taken
                       [] k = P_updatedAt -> updatedAt]
    IN  JsObject([k \in {k \in DOMAIN field : field[k] # Absent} |-> field[k]])

\* A string that is no date key: the month and day are not zero-padded.
UnpaddedKey == <<"2", "0", "2", "4", "-", "1", "-", "1">>

\* The keys and values of the taken objects of the files tried.
RawKeys == {Key(2024, 1, 1), Key(2024, 2, 30), UnpaddedKey}
RawValues ==
    { JsNull, JsNumber(0), JsNumber(7), JsInfinity, JsBoolean(TRUE), JsBoolean(FALSE),
      JsString(<<"x">>), JsObject(<<>>) }

RawTakenObjects ==
    UNION { { JsObject(f) : f \in [keys -> RawValues] } : keys \in SUBSET RawKeys }

\* Files of version 1 or 2 with every taken object above.
FilesByTaken ==
    { MakeObject(version, JsString(Key(2024, 1, 1)), taken, updatedAt) :
        version \in {JsNumber(1), JsNumber(2)},
        taken \in RawTakenObjects,
        updatedAt \in {Absent, JsNumber(5)} }

\* Files with every combination of present, absent and ill-typed fields.
FilesByShape ==
    { MakeObject(version, startDate, taken, updatedAt) :
        version \in { Absent, JsNull, JsBoolean(TRUE), JsNumber(0), JsNumber(1), JsNumber(2),
                      JsNumber(3), JsString(<<"2">>) },
        startDate \in { Absent, JsNull, JsNumber(20240101), JsString(UnpaddedKey),
                        JsString(Key(2024, 1, 1)), JsString(Key(2024, 2, 30)) },
        taken \in { Absent, JsNull, JsBoolean(TRUE), JsNumber(0), JsNumber(1),
                    JsString(<<>>), JsString(<<"x">>), JsArray(<<>>),
                    JsArray(<<JsBoolean(TRUE), JsNumber(5)>>), JsObject(<<>>),
                    JsObject([k \in {Key(2024, 1, 1), Key(2024, 2, 30)} |->
                                 IF k = Key(2024, 1, 1) THEN JsNull ELSE JsBoolean(TRUE)]) },
        updatedAt \in {Absent, JsNull, JsString(<<"x">>), JsNumber(5), JsInfinity} }

\* Values that are no object, and arrays.
NonObjects ==
    { JsNull, JsBoolean(TRUE), JsBoolean(FALSE), JsNumber(0), JsNumber(5), JsInfinity,
      JsString(<<>>), JsString(Key(2024, 1, 1)), JsArray(<<>>),
      JsArray(<<MakeObject(JsNumber(2), JsString(Key(2024, 1, 1)), JsObject(<<>>), Absent)>>) }

CoerceCalls ==
    { [fn |-> "coerceSave", input |-> input, now |-> now] :
        input \in FilesByTaken \cup FilesByShape \cup NonObjects, now \in Nows }

\* Valid current-version records: every key a date key, every value null
\* or an integer timestamp, updatedAt an integer.
ValidSaves ==
    UNION { { [version |-> 2, startDate |-> startDate, taken |-> taken,
               updatedAt |-> updatedAt] :
                taken \in [keys -> {JsNull, JsNumber(0), JsNumber(7)}],
                startDate \in {Key(2023, 12, 31), Key(2024, 2, 30)},
                updatedAt \in {JsNumber(0), JsNumber(5)} } :
            keys \in SUBSET {Key(2023, 12, 31), Key(2024, 1, 1), Key(2024, 2, 30)} }

ExportImportCalls ==
    { [fn |-> "exportImport", save |-> save, now |-> now] :
        save \in ValidSaves, now \in Nows }

\* The keys of all stretches, real days and keys that name no day.
AllKeys ==
    UNION {RangeDays(c) : c \in CalendarIds} \cup {NoSuchDay[c] : c \in CalendarIds}

EnsureStartDateCalls ==
    { [fn |-> "ensureStartDate",
       save |-> [version |-> 2, startDate |-> startDate, taken |-> taken,
                 updatedAt |-> JsNumber(5)],
       candidate |-> candidate] :
        startDate \in AllKeys, candidate \in AllKeys,
        taken \in {<<>>, [k \in {Key(2024, 3, 1)} |-> JsNull]} }

\* isTaken on a record built from the days marked and the value stored
\* for each of them.
IsTakenCalls ==
    UNION { { [fn |-> "isTaken", days |-> days, stored |-> val,
               save |-> [version |-> 2, startDate |-> Calendars[c][1],
                         taken |-> [k \in days |-> val], updatedAt |-> JsNumber(0)],
               key |-> key] :
                days \in SUBSET EntryDays(c), val \in {JsNull, JsNumber(0), JsNumber(7)},
                key \in RangeDays(c) } : c \in CalendarIds }

(***************************************************************************)
(* The page before it is opened                                            *)
(***************************************************************************)
NoItem == [kind |-> "absent", text |-> <<>>]
Item(text) == [kind |-> "text", text |-> text]

\* key is the day a toggle or applyStartDate was given, item the file an
\* import was given or the stored item a load found, batch the updates a
\* render ran, from the startDate the handler found.
NoHandler ==
    [op |-> "none", key |-> <<>>, item |-> NoItem, batch |-> <<>>, from |-> <<>>,
     outcome |-> "none"]
Handled(op, key, from, outcome) ==
    [op |-> op, key |-> key, item |-> NoItem, batch |-> <<>>, from |-> from,
     outcome |-> outcome]
HandledItem(op, item, from, outcome) ==
    [op |-> op, key |-> <<>>, item |-> item, batch |-> <<>>, from |-> from,
     outcome |-> outcome]
HandledBatch(op, batch, from, outcome) ==
    [op |-> op, key |-> <<>>, item |-> NoItem, batch |-> batch, from |-> from,
     outcome |-> outcome]

\* The record of a page that is not open: no start date, no entries.
NoSave == [version |-> 2, startDate |-> <<>>, taken |-> <<>>, updatedAt |-> JsNumber(0)]

\* No page is open and nothing is stored: the state the library calls run in.
NoPage ==
    /\ phase = "closed"
    /\ storage = NoItem
    /\ clock = 0
    /\ appSave = NoSave
    /\ appToday = <<>>
    /\ startDateDraft = <<>>
    /\ importError = "none"
    /\ reading = FALSE
    /\ queue = <<>>
    /\ last = NoHandler

Pending == [done |-> FALSE]

\* The locals of computeCurrentStreak when it is not run statement by
\* statement: pc is the statement it is at, visited the keys its loop has
\* looked up.
NoWalk == [pc |-> "idle", startCursor |-> 0, cursor |-> 0, len |-> 0, visited |-> 0]
Returned(value) == [done |-> TRUE, value |-> value]

CallInit ==
    /\ call \in CurrentStreakCalls \cup BestStreakCalls \cup HistoryCalls
                \cup RoundTripCalls \cup CoerceCalls \cup ExportImportCalls
                \cup EnsureStartDateCalls \cup IsTakenCalls
    /\ ret = Pending
    /\ walk = NoWalk
    /\ NoPage

RunComputeCurrentStreak ==
    /\ call.fn = "computeCurrentStreak"
    /\ ~ret.done
    /\ ret' = Returned(computeCurrentStreak(call.save, call.today))
    /\ UNCHANGED <<call, walk, appVars>>

RunComputeBestStreak ==
    /\ call.fn = "computeBestStreak"
    /\ ~ret.done
    /\ ret' = Returned(computeBestStreak(call.save, call.start, call.end))
    /\ UNCHANGED <<call, walk, appVars>>

RunBuildHistoryKeysInclusive ==
    /\ call.fn = "buildHistoryKeysInclusive"
    /\ ~ret.done
    /\ ret' = Returned(buildHistoryKeysInclusive(call.start, call.end))
    /\ UNCHANGED <<call, walk, appVars>>

\* toISODateKeyLocal(makeLocalNoonDateFromISO(key))
RunKeyRoundTrip ==
    /\ call.fn = "keyRoundTrip"
    /\ ~ret.done
    /\ ret' = Returned(toISODateKeyLocal(makeLocalNoonDateFromISO(call.key)))
    /\ UNCHANGED <<call, walk, appVars>>

RunCoerceSave ==
    /\ call.fn = "coerceSave"
    /\ ~ret.done
    /\ ret' = Returned(coerceSave(call.input, call.now))
    /\ UNCHANGED <<call, walk, appVars>>

\* exportData writes JSON.stringify(save); importFromFile reads the text
\* back: JSON.parse, then coerceSave.
RunExportImport ==
    /\ call.fn = "exportImport"
    /\ ~ret.done
    /\ LET payload == JSONstringify(SaveAsObject(call.save))
           parsed  == JSONparse(payload)
       IN  ret' = Returned(IF parsed.threw THEN CoerceThrow
                           ELSE coerceSave(parsed.value, call.now))
    /\ UNCHANGED <<call, walk, appVars>>

RunEnsureStartDate ==
    /\ call.fn = "ensureStartDate"
    /\ ~ret.done
    /\ ret' = Returned(ensureStartDate(call.save, call.candidate))
    /\ UNCHANGED <<call, walk, appVars>>

RunIsTaken ==
    /\ call.fn = "isTaken"
    /\ ~ret.done
    /\ ret' = Returned(isTaken(call.save, call.key))
    /\ UNCHANGED <<call, walk, appVars>>

FnNext ==
    \/ RunEnsureStartDate
    \/ RunIsTaken
    \/ RunCoerceSave
    \/ RunExportImport
    \/ RunKeyRoundTrip
    \/ RunComputeCurrentStreak
    \/ RunComputeBestStreak
    \/ RunBuildHistoryKeysInclusive

FnSpec == CallInit /\ [][FnNext]_vars

(***************************************************************************)
(* The App: the record in memory, the stored item, the handlers            *)
(***************************************************************************)
\* The devices tried: one whose clock starts on 2024-02-28 and one whose
\* clock starts on 1000-01-01, each running for up to MaxDaysPassed days.
MaxDaysPassed == 1

ModernStart == NewDate(2024, 1, 28)
YearThousandStart == NewDate(1000, 0, 1)
ClockStarts == {ModernStart, YearThousandStart}

ClockStart(now) == CHOOSE s \in ClockStarts : now \in s..(s + MaxDaysPassed)
ClockDays == UNION { s..(s + MaxDaysPassed) : s \in ClockStarts }

\* getTodayKey() at device day now.
getTodayKey(now) == toISODateKeyLocal(now)

\* Date.now() at device day now. The time of day is not modelled: every
\* reading is the one stamp 9 (the save files tried carry 5 and 7).
DateNow(now) == 9

makeDefaultSave(now) ==
    [version |-> 2, startDate |-> getTodayKey(now), taken |-> <<>>,
     updatedAt |-> JsNumber(DateNow(now))]

\* The initializer without its reads of the stored item.
loadSave_IgnoresStorage(item, readable, now) == makeDefaultSave(now)

\* The useState initializer of save: readable is whether
\* localStorage.getItem returns (TRUE) or throws (FALSE).
loadSave(item, readable, now) ==
    IF ~readable THEN makeDefaultSave(now)
    ELSE IF item.kind = "absent" \/ item.text = <<>> THEN makeDefaultSave(now)
    ELSE LET parsed == JSONparse(item.text)
         IN  IF parsed.threw THEN makeDefaultSave(now)
             ELSE LET coerced == coerceSave(parsed.value, DateNow(now))
                  IN  IF coerced.kind = "save" THEN coerced.save
                      ELSE makeDefaultSave(now)

\* The text saveToStorage(data) stores.
saveToStorage(data, now) ==
    Item(JSONstringify(SaveAsObject([data EXCEPT !.updatedAt = JsNumber(DateNow(now))])))

\* updateDate without its call of ensureStartDate.
updateDate_NoEnsureStartDate(prev, key, nextTaken, renderedToday, now) ==
    LET stamp == IF key = renderedToday THEN JsNumber(DateNow(now)) ELSE JsNull
        taken == IF nextTaken
                 THEN [k \in DOMAIN prev.taken \cup {key} |->
                          IF k = key THEN stamp ELSE prev.taken[k]]
                 ELSE [k \in DOMAIN prev.taken \ {key} |-> prev.taken[k]]
    IN  [prev EXCEPT !.taken = taken, !.updatedAt = JsNumber(DateNow(now))]

\* The updater updateDate(key, nextTaken) hands to setSave, applied to prev;
\* renderedToday is the today of the render the handler was created in.
updateDate(prev, key, nextTaken, renderedToday, now) ==
    LET stamp == IF key = renderedToday THEN JsNumber(DateNow(now)) ELSE JsNull
        taken == IF nextTaken
                 THEN [k \in DOMAIN prev.taken \cup {key} |->
                          IF k = key THEN stamp ELSE prev.taken[k]]
                 ELSE [k \in DOMAIN prev.taken \ {key} |-> prev.taken[k]]
        next  == [prev EXCEPT !.taken = taken, !.updatedAt = JsNumber(DateNow(now))]
    IN  IF nextTaken THEN ensureStartDate(next, key) ELSE next

\* A queued call of updateDate.
Toggle(key, nextTaken, renderedToday) ==
    [key |-> key, nextTaken |-> nextTaken, today |-> renderedToday]

\* The last queued updater alone is run, on the record of the last render.
ApplyQueue_EachOnBase(base, updates, now) ==
    IF updates = <<>> THEN base
    ELSE LET u == updates[Len(updates)]
         IN  updateDate(base, u.key, u.nextTaken, u.today, now)

\* React runs the queued updaters in order, each on the result of the one
\* before it.
RECURSIVE ApplyQueue(_, _, _)
ApplyQueue(base, updates, now) ==
    IF updates = <<>> THEN base
    ELSE LET u == Head(updates)
         IN  ApplyQueue(updateDate(base, u.key, u.nextTaken, u.today, now),
                        Tail(updates), now)

\* The key of the day n, written with four, two and two digits.
PaddedKey(n) == LET c == CivilFromDays(n) IN Key(c.y, c.m, c.d)

\* The save files tried on a device whose clock started on day s.
ConsistentFile(s) ==
    MakeObject(JsNumber(2), JsString(PaddedKey(s - 1)),
               JsObject([k \in {PaddedKey(s - 1), PaddedKey(s)} |->
                            IF k = PaddedKey(s) THEN JsNumber(7) ELSE JsNull]),
               JsNumber(5))
EarlierEntryFile(s) ==
    MakeObject(JsNumber(2), JsString(PaddedKey(s)),
               JsObject([k \in {PaddedKey(s - 1), PaddedKey(s)} |-> JsNull]), Absent)
VersionOneFile(s) ==
    MakeObject(JsNumber(1), JsString(PaddedKey(s - 1)),
               JsObject([k \in {PaddedKey(s - 1), PaddedKey(s), UnpaddedKey} |->
                            IF k = PaddedKey(s) THEN JsBoolean(FALSE) ELSE JsBoolean(TRUE)]),
               JsNumber(5))
FutureStartFile(s) ==
    MakeObject(JsNumber(2), JsString(PaddedKey(s + MaxDaysPassed + 1)), JsObject(<<>>), Absent)
UnknownVersionFile(s) ==
    MakeObject(JsNumber(3), JsString(PaddedKey(s)), JsObject(<<>>), JsNumber(5))

\* A text that is not JSON.
MalformedText == <<Punct("{")>>

FileTexts(s) ==
    { JSONstringify(f) : f \in { ConsistentFile(s), EarlierEntryFile(s), VersionOneFile(s),
                                 FutureStartFile(s), UnknownVersionFile(s), JsNull } }
        \cup {MalformedText}

\* A chosen file: its text, or a file whose text cannot be read.
File(text) == [kind |-> "file", text |-> text]
UnreadableFile == [kind |-> "unreadable", text |-> <<>>]
Files(s) == { File(t) : t \in FileTexts(s) } \cup {UnreadableFile}

\* The stored item when the page is opened for the first time.
StoredItems(s) == {NoItem, Item(<<>>)} \cup { Item(t) : t \in FileTexts(s) }

\* The values the date input can hold: empty, or a date the picker offers.
Drafts(s) == {<<>>, PaddedKey(s - 2), PaddedKey(s)}

NoCall == [fn |-> "none"]

\* The page is not open yet; the device's clock reads day start.
InitAt(start) ==
    /\ call = NoCall
    /\ ret = Pending
    /\ walk = NoWalk
    /\ phase = "closed"
    /\ clock = start
    /\ storage \in StoredItems(clock)
    /\ appSave = NoSave
    /\ appToday = <<>>
    /\ startDateDraft = <<>>
    /\ importError = "none"
    /\ reading = FALSE
    /\ queue = <<>>
    /\ last = NoHandler

\* A render with the record next: today is read anew; if the record is a
\* new object the effect on [save] stores it; if save.startDate or today
\* changed the effect on them resets the draft, which otherwise is draft.
Commit(next, isNewObject, draft) ==
    /\ appSave' = next
    /\ appToday' = getTodayKey(clock)
    /\ storage' = IF isNewObject THEN saveToStorage(next, clock) ELSE storage
    /\ startDateDraft' = IF next.startDate # appSave.startDate \/ appToday' # appToday
                         THEN next.startDate
                         ELSE draft

\* The page is opened: useState initializers, first render, effects.
Mount ==
    /\ phase = "closed"
    /\ \E readable \in BOOLEAN :
          LET loaded == loadSave(storage, readable, clock)
          IN  /\ appSave' = loaded
              /\ appToday' = getTodayKey(clock)
              /\ storage' = saveToStorage(loaded, clock)
              /\ startDateDraft' = loaded.startDate
              /\ last' = HandledItem("load", storage, <<>>,
                                      IF readable THEN "read" ELSE "unreadable")
    /\ phase' = "open"
    /\ importError' = "none"
    /\ reading' = FALSE
    /\ UNCHANGED <<libVars, clock, queue>>

\* The page is closed or reloaded: the stored item is all that remains.
Unmount ==
    /\ phase = "open"
    /\ phase' = "closed"
    /\ appSave' = NoSave
    /\ appToday' = <<>>
    /\ startDateDraft' = <<>>
    /\ importError' = "none"
    /\ reading' = FALSE
    /\ queue' = <<>>
    /\ last' = NoHandler
    /\ UNCHANGED <<libVars, clock, storage>>

\* Midnight passes.
DayPasses ==
    /\ clock < ClockStart(clock) + MaxDaysPassed
    /\ clock' = clock + 1
    /\ last' = NoHandler
    /\ UNCHANGED <<libVars, phase, storage, appSave, appToday, startDateDraft, importError,
                   reading, queue>>

\* A render with no change of the record (the toast timer fires).
Rerender ==
    /\ phase = "open"
    /\ queue = <<>>
    /\ appToday # getTodayKey(clock)
    /\ Commit(appSave, FALSE, startDateDraft)
    /\ last' = NoHandler
    /\ UNCHANGED <<libVars, phase, clock, importError, reading, queue>>

\* toggleToday: updateDate(today, !todayTaken)
ToggleToday ==
    /\ phase = "open"
    /\ queue = <<>>
    /\ LET nextTaken == ~isTaken(appSave, appToday)
       IN  /\ Commit(ApplyQueue(appSave, <<Toggle(appToday, nextTaken, appToday)>>, clock),
                     TRUE, startDateDraft)
           /\ last' = Handled("toggle", appToday, appSave.startDate,
                               IF nextTaken THEN "marked" ELSE "unmarked")
    /\ UNCHANGED <<libVars, phase, clock, importError, reading, queue>>

\* The history rows of the last render.
historyKeys == buildHistoryKeysInclusive(appSave.startDate, appToday)

\* A click on a history row: updateDate(key, !checked)
ToggleHistoryRow ==
    /\ phase = "open"
    /\ queue = <<>>
    /\ \E i \in 1..Len(historyKeys) :
          LET key       == historyKeys[i]
              nextTaken == ~isTaken(appSave, key)
          IN  /\ Commit(ApplyQueue(appSave, <<Toggle(key, nextTaken, appToday)>>, clock),
                        TRUE, startDateDraft)
              /\ last' = Handled("toggle", key, appSave.startDate,
                                  IF nextTaken THEN "marked" ELSE "unmarked")
    /\ UNCHANGED <<libVars, phase, clock, importError, reading, queue>>

\* The date input changes: setStartDateDraft(e.target.value)
SetStartDateDraft ==
    /\ phase = "open"
    /\ queue = <<>>
    /\ \E value \in Drafts(ClockStart(clock)) :
          /\ value # startDateDraft
          /\ Commit(appSave, FALSE, value)
    /\ last' = NoHandler
    /\ UNCHANGED <<libVars, phase, clock, importError, reading, queue>>

\* The checks of applyStartDate without the one against today.
StartDateCheck_NoFutureTest(candidate, renderedToday, startDate) ==
    IF ~MatchesDateRegex(candidate) THEN "invalid"
    ELSE IF compareISODate(candidate, startDate) > 0 THEN "later"
    ELSE "applied"

\* The three checks of applyStartDate: the error it sets, or "applied".
StartDateCheck(candidate, renderedToday, startDate) ==
    IF ~MatchesDateRegex(candidate) THEN "invalid"
    ELSE IF compareISODate(candidate, renderedToday) > 0 THEN "future"
    ELSE IF compareISODate(candidate, startDate) > 0 THEN "later"
    ELSE "applied"

\* applyStartDate: the checks, then setSave(prev => ensureStartDate(prev, candidate))
ApplyStartDate ==
    /\ phase = "open"
    /\ queue = <<>>
    /\ LET candidate == startDateDraft
           startDate == appSave.startDate
           outcome   == StartDateCheck(candidate, appToday, startDate)
           next      == IF outcome = "applied" THEN ensureStartDate(appSave, candidate)
                        ELSE appSave
       IN  /\ Commit(next, next # appSave, startDateDraft)
           /\ last' = Handled("start", candidate, startDate, outcome)
    /\ UNCHANGED <<libVars, phase, clock, importError, reading, queue>>

\* importFromFile up to its await: setImportError(null); file.text() is asked for.
ImportStart ==
    /\ phase = "open"
    /\ queue = <<>>
    /\ ~reading
    /\ reading' = TRUE
    /\ importError' = "none"
    /\ IF importError # "none"
       THEN Commit(appSave, FALSE, startDateDraft)
       ELSE UNCHANGED <<appSave, appToday, storage, startDateDraft>>
    /\ last' = NoHandler
    /\ UNCHANGED <<libVars, phase, clock, queue>>

\* importFromFile taking a file coerceSave rejects for an empty record.
ImportOutcome_RejectedResets(file, now) ==
    LET parsed  == JSONparse(file.text)
        coerced == coerceSave(parsed.value, DateNow(now))
    IN  IF file.kind = "unreadable" \/ parsed.threw \/ coerced.kind = "throw"
        THEN [file |-> file, outcome |-> "unreadable", save |-> NoSave]
        ELSE IF coerced.kind = "null"
        THEN [file |-> file, outcome |-> "imported", save |-> makeDefaultSave(now)]
        ELSE [file |-> file, outcome |-> "imported", save |-> coerced.save]

\* What importFromFile does with the file once file.text() settles:
\* "unreadable" (the catch), "invalid" (coerceSave gave null) or "imported".
ImportOutcome(file, now) ==
    LET parsed  == JSONparse(file.text)
        coerced == coerceSave(parsed.value, DateNow(now))
    IN  IF file.kind = "unreadable" \/ parsed.threw \/ coerced.kind = "throw"
        THEN [file |-> file, outcome |-> "unreadable", save |-> NoSave]
        ELSE IF coerced.kind = "null"
        THEN [file |-> file, outcome |-> "invalid", save |-> NoSave]
        ELSE [file |-> file, outcome |-> "imported", save |-> coerced.save]

\* The outcomes of the files tried, by the day of the import.
ImportOutcomes ==
    [now \in ClockDays |-> { ImportOutcome(file, now) : file \in Files(ClockStart(now)) }]

\* importFromFile after its await: parse, coerce, replace or report.
ImportFinish ==
    /\ phase = "open"
    /\ queue = <<>>
    /\ reading
    /\ \E r \in ImportOutcomes[clock] :
          /\ Commit(IF r.outcome = "imported" THEN r.save ELSE appSave,
                    r.outcome = "imported", startDateDraft)
          /\ importError' = IF r.outcome = "imported" THEN importError ELSE r.outcome
          /\ last' = HandledItem("import", r.file, appSave.startDate, r.outcome)
    /\ reading' = FALSE
    /\ UNCHANGED <<libVars, phase, clock, queue>>

\* onClear, confirmed: clearStorage(); setSave(makeDefaultSave())
Clear ==
    /\ phase = "open"
    /\ queue = <<>>
    /\ Commit(makeDefaultSave(clock), TRUE, startDateDraft)
    /\ last' = Handled("clear", <<>>, appSave.startDate, "cleared")
    /\ UNCHANGED <<libVars, phase, clock, importError, reading, queue>>

Next ==
    \/ Mount
    \/ Unmount
    \/ DayPasses
    \/ Rerender
    \/ ToggleToday
    \/ ToggleHistoryRow
    \/ SetStartDateDraft
    \/ ApplyStartDate
    \/ ImportStart
    \/ ImportFinish
    \/ Clear

Init == InitAt(ModernStart)

Spec == Init /\ [][Next]_vars

(***************************************************************************)
(* The App with React's update queue: clicks before the next render        *)
(***************************************************************************)
\* The updates queued before React renders.
MaxQueue == 2

\* The toggle buttons of the last render: today's and the history rows'.
ToggleKeys == {appToday} \cup { historyKeys[i] : i \in 1..Len(historyKeys) }

\* A click on a toggle before React has rendered the clicks before it: the
\* handler is the one of the last render, with its save and its today.
QueueToggle ==
    /\ phase = "open"
    /\ Len(queue) < MaxQueue
    /\ \E key \in ToggleKeys :
          queue' = Append(queue, Toggle(key, ~isTaken(appSave, key), appToday))
    /\ last' = NoHandler
    /\ UNCHANGED <<libVars, phase, storage, clock, appSave, appToday, startDateDraft,
                   importError, reading>>

\* React renders: the queued updaters run in order, then the effects.
FlushQueue ==
    /\ phase = "open"
    /\ queue # <<>>
    /\ Commit(ApplyQueue(appSave, queue, clock), TRUE, startDateDraft)
    /\ queue' = <<>>
    /\ last' = HandledBatch("flush", queue, appSave.startDate, "flushed")
    /\ UNCHANGED <<libVars, phase, clock, importError, reading>>

BatchNext ==
    \/ Mount
    \/ Unmount
    \/ DayPasses
    \/ Rerender
    \/ QueueToggle
    \/ FlushQueue

BatchSpec == Init /\ [][BatchNext]_vars

\* The same App on the device whose clock starts on 1000-01-01.
YearThousandInit == InitAt(YearThousandStart)

YearThousandSpec == YearThousandInit /\ [][Next]_vars

(***************************************************************************)
(* computeCurrentStreak, one statement at a time                           *)
(***************************************************************************)
\* The calls run this way: those of computeCurrentStreak above, and calls
\* whose today spells a day that does not exist.
WalkCalls ==
    { [c EXCEPT !.fn = "walk"] : c \in CurrentStreakCalls }
        \cup UNION { { [fn |-> "walk", cal |-> c, save |-> save, today |-> NoSuchDay[c]] :
                         save \in Saves(c, {JsNull}) } : c \in CalendarIds }

\* The loop is cut off after this many lookups, more than any record of
\* the calls has entries.
MaxVisits == WindowLen + 4

\* const startCursor = todayTaken ? today : the day before today
StartCursor(save, today) ==
    IF isTaken(save, today)
    THEN makeLocalNoonDateFromISO(today)
    ELSE addDaysLocalNoon(makeLocalNoonDateFromISO(today), -1)

WalkInit ==
    /\ call = NoCall
    /\ ret = Pending
    /\ walk = NoWalk
    /\ NoPage

\* computeCurrentStreak(save, today) is called.
WalkCall ==
    /\ walk.pc = "idle"
    /\ call' \in WalkCalls
    /\ walk' = [walk EXCEPT !.pc = "start",
                             !.startCursor = StartCursor(call'.save, call'.today)]
    /\ UNCHANGED <<ret, appVars>>

\* Up to the loop: the early return, or let len = 0, cursor = startCursor.
WalkEnter ==
    /\ walk.pc = "start"
    /\ IF ~isTaken(call.save, toISODateKeyLocal(walk.startCursor))
       THEN /\ ret' = Returned([length |-> 0, start |-> NoKey, end |-> NoKey])
            /\ walk' = [walk EXCEPT !.pc = "done"]
       ELSE /\ ret' = ret
            /\ walk' = [walk EXCEPT !.pc = "loop", !.cursor = walk.startCursor]
    /\ UNCHANGED <<call, appVars>>

\* One turn of while (true): look the cursor's key up; break, or count the
\* day and move the cursor a day back.
WalkIterate ==
    /\ walk.pc = "loop"
    /\ walk.visited < MaxVisits
    /\ walk' = IF ~isTaken(call.save, toISODateKeyLocal(walk.cursor))
               THEN [walk EXCEPT !.pc = "exit", !.visited = @ + 1]
               ELSE [walk EXCEPT !.len = @ + 1, !.visited = @ + 1,
                                 !.cursor = addDaysLocalNoon(walk.cursor, -1)]
    /\ UNCHANGED <<call, ret, appVars>>

\* After the loop: the run's keys and the return.
WalkReturn ==
    /\ walk.pc = "exit"
    /\ \E runStart \in {addDaysLocalNoon(walk.cursor, 1)} :
           ret' = Returned([length |-> walk.len,
                            start |-> toISODateKeyLocal(runStart),
                            end |-> toISODateKeyLocal(walk.startCursor)])
    /\ walk' = [walk EXCEPT !.pc = "done"]
    /\ UNCHANGED <<call, appVars>>

WalkNext ==
    \/ WalkCall
    \/ WalkEnter
    \/ WalkIterate
    \/ WalkReturn

\* The function runs to its end once called: nothing else runs in between.
WalkSpec ==
    WalkInit /\ [][WalkNext]_vars /\ WF_vars(WalkEnter \/ WalkIterate \/ WalkReturn)

(***************************************************************************)
(* The calendar the claims are stated against: the hand-listed stretches   *)
(***************************************************************************)
\* Day i of stretch c is marked in save (day 0 and earlier, before the
\* stretch, is marked in no record drawn here).
Marked(c, save, i) == i >= 1 /\ Calendars[c][i] \in DOMAIN save.taken

IsCalendarDay(c, k) == \E i \in 1..Len(Calendars[c]) : Calendars[c][i] = k

\* Days i..j of stretch c are all marked: a run of consecutive taken days.
IsRun(c, save, i, j) == i <= j /\ \A n \in i..j : Marked(c, save, n)

ZeroStreak == [length |-> 0, start |-> NoKey, end |-> NoKey]

CurrentDone == call.fn = "computeCurrentStreak" /\ ret.done
BestDone == call.fn = "computeBestStreak" /\ ret.done
HistoryDone == call.fn = "buildHistoryKeysInclusive" /\ ret.done

\* C1: computeCurrentStreak ends the streak at today when today is taken, at
\* the day before today when only that day is taken, and returns the empty
\* streak {0, null, null} when neither is taken, whatever older days the
\* record holds.
C1_CurrentStreakAnchor ==
    CurrentDone =>
        LET c == call.cal
            t == DayIndex(c, call.today)
        IN  /\ Marked(c, call.save, t) => ret.value.end = call.today
            /\ ~Marked(c, call.save, t) /\ Marked(c, call.save, t - 1)
                   => ret.value.end = Calendars[c][t - 1]
            /\ ~Marked(c, call.save, t) /\ ~Marked(c, call.save, t - 1)
                   => ret.value = ZeroStreak

\* Today (1 January) is not taken, 31 December is: the streak ends on 31
\* December.
C1_Witness ==
    /\ CurrentDone
    /\ call.today = Key(2024, 1, 1)
    /\ ~isTaken(call.save, call.today)
    /\ isTaken(call.save, Key(2023, 12, 31))
    /\ ret.value.end = Key(2023, 12, 31)

\* C2: a non-empty current streak is the maximal run of consecutive taken
\* days ending at the anchor: every day from start to end is taken, the day
\* before start is not, and length counts the days from start to end.
C2_CurrentStreakIsMaximalRun ==
    CurrentDone /\ ret.value # ZeroStreak =>
        LET c == call.cal
            r == ret.value
        IN  /\ IsCalendarDay(c, r.start)
            /\ IsCalendarDay(c, r.end)
            /\ LET s == DayIndex(c, r.start)
                   e == DayIndex(c, r.end)
               IN  /\ IsRun(c, call.save, s, e)
                   /\ ~Marked(c, call.save, s - 1)
                   /\ r.length = e - s + 1

\* Three consecutive taken days ending yesterday, today not taken, across
\* 29 February: length 3 ending yesterday.
C2_Witness ==
    /\ CurrentDone
    /\ call.today = Key(2024, 3, 2)
    /\ ~isTaken(call.save, call.today)
    /\ ret.value = [length |-> 3, start |-> Key(2024, 2, 28), end |-> Key(2024, 3, 1)]

\* The runs of taken days inside days a..b of stretch c, as index pairs.
RunsInRange(c, save, a, b) ==
    { p \in (a..b) \X (a..b) : IsRun(c, save, p[1], p[2]) }

\* C3: computeBestStreak returns the longest run of consecutive taken days
\* inside start..end, and of several longest runs the earliest one.
C3_BestStreakIsLongestEarliestRun ==
    BestDone =>
        LET c    == call.cal
            a    == DayIndex(c, call.start)
            b    == DayIndex(c, call.end)
            runs == RunsInRange(c, call.save, a, b)
            r    == ret.value
        IN  IF runs = {} THEN r.length = 0
            ELSE /\ IsCalendarDay(c, r.start)
                 /\ IsCalendarDay(c, r.end)
                 /\ LET s == DayIndex(c, r.start)
                        e == DayIndex(c, r.end)
                    IN  /\ <<s, e>> \in runs
                        /\ r.length = e - s + 1
                        /\ \A p \in runs : p[2] - p[1] + 1 <= r.length
                        /\ \A p \in runs : p[2] - p[1] + 1 = r.length => s <= p[1]

\* Two runs of two days each, separated by a gap: the earlier one is
\* returned.
C3_Witness ==
    /\ BestDone
    /\ LET c == call.cal
       IN  /\ DOMAIN call.save.taken =
                  {Calendars[c][1], Calendars[c][2], Calendars[c][4], Calendars[c][5]}
           /\ call.start = Calendars[c][1]
           /\ call.end = Calendars[c][5]
           /\ ret.value = [length |-> 2, start |-> Calendars[c][1], end |-> Calendars[c][2]]

WellFormedStreak(r) ==
    /\ r.length \in Nat
    /\ (r.start = NoKey) <=> (r.end = NoKey)
    /\ (r.start = NoKey) <=> (r.length = 0)
    /\ r.start # NoKey => MatchesDateRegex(r.start) /\ MatchesDateRegex(r.end)

\* C4: every StreakInfo returned is well formed: length is a natural number,
\* start and end are both keys or both null, and null exactly when length
\* is 0; computeBestStreak returns {0, null, null} when start is later than
\* end or no day of the range is taken.
C4_StreakInfoWellFormed ==
    /\ CurrentDone => WellFormedStreak(ret.value)
    /\ BestDone =>
          /\ WellFormedStreak(ret.value)
          /\ LET c == call.cal
                 a == DayIndex(c, call.start)
                 b == DayIndex(c, call.end)
             IN  (a > b \/ \A n \in a..b : ~Marked(c, call.save, n))
                     => ret.value = ZeroStreak

\* A best-streak call whose start is later than its end, on a record with
\* taken days: the empty streak.
C4_Witness ==
    /\ BestDone
    /\ DayIndex(call.cal, call.start) > DayIndex(call.cal, call.end)
    /\ Cardinality(DOMAIN call.save.taken) >= 2
    /\ ret.value = ZeroStreak

\* C5: buildHistoryKeysInclusive(start, end) lists every calendar day from
\* end down to start once, most recent first (end first, start last), and
\* is empty when start is later than end.
C5_HistoryDescendingInclusive ==
    HistoryDone =>
        LET c == call.cal
            a == DayIndex(c, call.start)
            b == DayIndex(c, call.end)
        IN  IF a > b THEN ret.value = <<>>
            ELSE /\ Len(ret.value) = b - a + 1
                 /\ \A j \in 1..(b - a + 1) : ret.value[j] = Calendars[c][b - j + 1]

\* A history from 28 February to 2 March of a leap year: four days, 29
\* February among them.
C5_Witness ==
    /\ HistoryDone
    /\ call.start = Key(2024, 2, 28)
    /\ call.end = Key(2024, 3, 2)
    /\ ret.value = <<Key(2024, 3, 2), Key(2024, 3, 1), Key(2024, 2, 29), Key(2024, 2, 28)>>

(***************************************************************************)
(* Round trip of a key through a Date                                      *)
(***************************************************************************)
RoundTripDone == call.fn = "keyRoundTrip" /\ ret.done

\* The year, month and day a key's digits spell.
SpeltYear(k) == Number(SubSeq(k, 1, 4))
SpeltMonth(k) == Number(SubSeq(k, 6, 7))
SpeltDay(k) == Number(SubSeq(k, 9, 10))

IsLeapYear(y) == (y % 4 = 0 /\ y % 100 # 0) \/ y % 400 = 0

MonthLength(y, m) ==
    IF m = 2 THEN (IF IsLeapYear(y) THEN 29 ELSE 28)
    ELSE IF m \in {4, 6, 9, 11} THEN 30 ELSE 31

\* The key spells a day that exists: month 01..12, day 01..end of month.
NamesCalendarDay(k) ==
    /\ SpeltMonth(k) \in 1..12
    /\ SpeltDay(k) \in 1..MonthLength(SpeltYear(k), SpeltMonth(k))

CoerceDone == call.fn = "coerceSave" /\ ret.done

\* The input is a structured object (not null, not a scalar, not an array).
IsStructuredObject(x) == x.t = "object"

\* The value is object-typed: an object or an array, not null.
IsObjectTyped(x) == x.t \in {"object", "array"}

HasField(x, name) == x.t = "object" /\ name \in DOMAIN x.v

HasValidStartDate(x) ==
    /\ HasField(x, P_startDate)
    /\ x.v[P_startDate].t = "string"
    /\ MatchesDateRegex(x.v[P_startDate].v)

HasObjectTypedTaken(x) == HasField(x, P_taken) /\ IsObjectTyped(x.v[P_taken])

HasVersion(x, n) == HasField(x, P_version) /\ x.v[P_version] = JsNumber(n)

\* The entries of the input's taken field, none for an array (its keys are
\* indices, no date keys).
InputEntries(x) == IF x.v[P_taken].t = "object" THEN x.v[P_taken].v ELSE <<>>

\* C7: coerceSave returns a record or null and never throws; it returns
\* null exactly when the input is no structured object, or its startDate is
\* no syntactically valid date key, or its taken field is not object-typed,
\* or its version is neither 2 nor 1.
C7_CoerceTotalAndRejectsExactly ==
    CoerceDone =>
        /\ ret.value.kind \in {"null", "save"}
        /\ ret.value.kind = "null" <=>
              \/ ~IsStructuredObject(call.input)
              \/ ~HasValidStartDate(call.input)
              \/ ~HasObjectTypedTaken(call.input)
              \/ ~(HasVersion(call.input, 2) \/ HasVersion(call.input, 1))

\* A version-2 file with a valid startDate whose taken field is null has
\* been rejected.
C7_Witness ==
    /\ CoerceDone
    /\ HasValidStartDate(call.input)
    /\ HasVersion(call.input, 2)
    /\ HasField(call.input, P_taken)
    /\ call.input.v[P_taken] = JsNull
    /\ ret.value = CoerceNull

\* C8: for a version-2 input the returned taken map holds exactly the input
\* entries whose key is a valid date key and whose value is a number or
\* null, each with its value; every other entry, a boolean one too, is
\* dropped.
C8_CurrentVersionKeepsValidEntries ==
    CoerceDone /\ HasVersion(call.input, 2) /\ ret.value.kind = "save" =>
        LET entries == InputEntries(call.input)
            taken   == ret.value.save.taken
        IN  /\ DOMAIN taken =
                  {k \in DOMAIN entries :
                      MatchesDateRegex(k) /\ entries[k].t \in {"number", "infinity", "null"}}
            /\ \A k \in DOMAIN taken : taken[k] = entries[k]

\* A version-2 file with a null entry and an entry true: only the null
\* entry is in the record.
C8_Witness ==
    /\ CoerceDone
    /\ HasVersion(call.input, 2)
    /\ HasObjectTypedTaken(call.input)
    /\ InputEntries(call.input) =
          [k \in {Key(2024, 1, 1), Key(2024, 2, 30)} |->
              IF k = Key(2024, 1, 1) THEN JsNull ELSE JsBoolean(TRUE)]
    /\ ret.value.kind = "save"
    /\ ret.value.save.taken = [k \in {Key(2024, 1, 1)} |-> JsNull]

\* C9: for a version-1 input coerceSave returns a version-2 record whose
\* taken map holds null for exactly the valid date keys whose value is true;
\* entries with false or any other value are dropped.
C9_PriorVersionMigratesTrue ==
    CoerceDone /\ HasVersion(call.input, 1) /\ ret.value.kind = "save" =>
        LET entries == InputEntries(call.input)
            taken   == ret.value.save.taken
        IN  /\ ret.value.save.version = 2
            /\ DOMAIN taken =
                  {k \in DOMAIN entries : MatchesDateRegex(k) /\ entries[k] = JsBoolean(TRUE)}
            /\ \A k \in DOMAIN taken : taken[k] = JsNull

\* A version-1 file with one day true and one day false: the record holds
\* the first day only, with null.
C9_Witness ==
    /\ CoerceDone
    /\ HasVersion(call.input, 1)
    /\ HasObjectTypedTaken(call.input)
    /\ InputEntries(call.input) =
          [k \in {Key(2024, 1, 1), Key(2024, 2, 30)} |->
              IF k = Key(2024, 1, 1) THEN JsBoolean(TRUE) ELSE JsBoolean(FALSE)]
    /\ ret.value.kind = "save"
    /\ ret.value.save.taken = [k \in {Key(2024, 1, 1)} |-> JsNull]

ExportImportDone == call.fn = "exportImport" /\ ret.done

\* C10: exporting a valid current-version record and importing the file
\* gives the record back: same version, startDate, taken entries and
\* updatedAt.
C10_ExportImportRoundTrip ==
    ExportImportDone =>
        /\ ret.value.kind = "save"
        /\ ret.value.save.version = call.save.version
        /\ ret.value.save.startDate = call.save.startDate
        /\ ret.value.save.taken = call.save.taken
        /\ ret.value.save.updatedAt = call.save.updatedAt

\* A record with a null entry, a timestamp-0 entry and a timestamp-7 entry
\* has come back from export and import.
C10_Witness ==
    /\ ExportImportDone
    /\ call.save.taken =
          [k \in {Key(2023, 12, 31), Key(2024, 1, 1), Key(2024, 2, 30)} |->
              CASE k = Key(2023, 12, 31) -> JsNull
                [] k = Key(2024, 1, 1)   -> JsNumber(0)
                [] k = Key(2024, 2, 30)  -> JsNumber(7)]
    /\ ret.value = CoerceSave(call.save)

(***************************************************************************)
(* Earliest start date                                                     *)
(***************************************************************************)
EnsureDone == call.fn = "ensureStartDate" /\ ret.done

\* Key a spells an earlier year, month, day than key b.
SpeltEarlier(a, b) ==
    \/ SpeltYear(a) < SpeltYear(b)
    \/ SpeltYear(a) = SpeltYear(b) /\ SpeltMonth(a) < SpeltMonth(b)
    \/ SpeltYear(a) = SpeltYear(b) /\ SpeltMonth(a) = SpeltMonth(b)
          /\ SpeltDay(a) < SpeltDay(b)

\* C11: ensureStartDate(record, candidate) returns the record with startDate
\* the earlier of record.startDate and candidate and version, taken and
\* updatedAt unchanged; applying it again with the same candidate changes
\* nothing; the resulting startDate is later than neither input.
C11_EnsureStartDateEarliest ==
    EnsureDone =>
        LET old == call.save
            new == ret.value
        IN  /\ new.startDate = IF SpeltEarlier(call.candidate, old.startDate)
                               THEN call.candidate ELSE old.startDate
            /\ new.version = old.version
            /\ new.taken = old.taken
            /\ new.updatedAt = old.updatedAt
            /\ ensureStartDate(new, call.candidate) = new
            /\ ~SpeltEarlier(old.startDate, new.startDate)
            /\ ~SpeltEarlier(call.candidate, new.startDate)

\* A candidate of 31 December 2023 against a start date of 1 January 2024:
\* the start date moves back over the year's end.
C11_Witness ==
    /\ EnsureDone
    /\ call.save.startDate = Key(2024, 1, 1)
    /\ call.candidate = Key(2023, 12, 31)
    /\ ret.value.startDate = Key(2023, 12, 31)
    /\ ret.value.taken = call.save.taken

(***************************************************************************)
(* Presence, not truthiness                                                *)
(***************************************************************************)
IsTakenDone == call.fn = "isTaken" /\ ret.done

\* C17: isTaken is true exactly for the days that have an entry, whatever
\* value is stored: null and timestamp 0 count as taken, a day without an
\* entry does not; the current streak counts a today stored with null or 0
\* and counts nothing in an empty record.
C17_TakenIsPresence ==
    /\ IsTakenDone => (ret.value <=> call.key \in call.days)
    /\ CurrentDone /\ call.today \in DOMAIN call.save.taken => ret.value.length >= 1
    /\ CurrentDone /\ DOMAIN call.save.taken = {} => ret.value.length = 0

\* A day stored with timestamp 0 has been reported as taken.
C17_Witness ==
    /\ IsTakenDone
    /\ call.stored = JsNumber(0)
    /\ call.key \in call.days
    /\ ret.value = TRUE


(***************************************************************************)
(* The App: the start date only moves back                                 *)
(***************************************************************************)
\* C12: a day toggle or an applyStartDate never moves startDate to a later
\* day, and a toggle that marks a day earlier than the current startDate
\* leaves startDate equal to that day.
C12_StartDateMonotonicEarliest ==
    [][ last'.op \in {"toggle", "start"} =>
            /\ ~SpeltEarlier(appSave.startDate, appSave'.startDate)
            /\ (last'.outcome = "marked" /\ SpeltEarlier(last'.key, appSave.startDate))
                   => appSave'.startDate = last'.key ]_vars

\* Today has been marked while startDate was a later day (an imported file
\* named it): startDate is today now.
C12_Witness ==
    /\ last.op = "toggle"
    /\ last.outcome = "marked"
    /\ SpeltEarlier(last.key, last.from)
    /\ appSave.startDate = last.key
    /\ last.key \in DOMAIN appSave.taken


(***************************************************************************)
(* The App: import is all or nothing                                       *)
(***************************************************************************)
\* The record coerceSave makes of the file's text on day now, if the text
\* can be read, is JSON and is accepted.
Acceptable(file, now) ==
    /\ file.kind = "file"
    /\ ~JSONparse(file.text).threw
    /\ coerceSave(JSONparse(file.text).value, DateNow(now)).kind = "save"
AcceptedRecord(file, now) == coerceSave(JSONparse(file.text).value, DateNow(now)).save

\* C13: an import of a file whose text is not JSON, or whose value
\* coerceSave rejects, leaves the record as it was and sets an import error
\* (one message for text that is not JSON, another for a rejected value);
\* an import of a file coerceSave accepts replaces the whole record by
\* the coerced one and sets no error.
C13_ImportAllOrNothing ==
    [][ last'.op = "import" =>
            LET file == last'.item
            IN  IF Acceptable(file, clock)
                THEN /\ appSave' = AcceptedRecord(file, clock)
                     /\ importError' = "none"
                ELSE /\ appSave' = appSave
                     /\ importError' = IF file.kind = "file" /\ ~JSONparse(file.text).threw
                                       THEN "invalid" ELSE "unreadable" ]_vars

\* A file of an unknown version has been rejected while the record held an
\* entry: the entry is still there and the error is shown.
C13_Witness ==
    /\ last.op = "import"
    /\ last.item = File(JSONstringify(UnknownVersionFile(ModernStart)))
    /\ importError = "invalid"
    /\ DOMAIN appSave.taken # {}


(***************************************************************************)
(* The App: setting the earliest visible day                               *)
(***************************************************************************)
\* Key a spells the same day as key b or an earlier one.
SpeltOnOrBefore(a, b) == ~SpeltEarlier(b, a)

\* C14: applyStartDate accepts its candidate only if it is a syntactically
\* valid date key, on or before today and on or before the current
\* startDate; a candidate that violates one of these leaves the record
\* unchanged and gets the message of the first violated constraint; an
\* accepted candidate changes startDate only (taken, version and updatedAt
\* are those of before).
C14_SetStartDateGuarded ==
    [][ last'.op = "start" =>
            LET candidate == last'.key
                syntax    == MatchesDateRegex(candidate)
                notFuture == syntax /\ SpeltOnOrBefore(candidate, PaddedKey(clock))
                notLater  == syntax /\ SpeltOnOrBefore(candidate, appSave.startDate)
            IN  /\ last'.outcome = "applied" => syntax /\ notFuture /\ notLater
                /\ ~syntax => last'.outcome = "invalid"
                /\ syntax /\ ~notFuture => last'.outcome = "future"
                /\ syntax /\ notFuture /\ ~notLater => last'.outcome = "later"
                /\ last'.outcome # "applied" => appSave' = appSave
                /\ last'.outcome = "applied" =>
                       appSave' = [appSave EXCEPT !.startDate = candidate] ]_vars

\* A candidate that is not in the future but later than startDate has been
\* rejected, and the record, which holds an entry, still has its startDate.
C14_Witness ==
    /\ last.op = "start"
    /\ last.outcome = "later"
    /\ SpeltEarlier(last.from, last.key)
    /\ appSave.startDate = last.from
    /\ DOMAIN appSave.taken # {}


(***************************************************************************)
(* The App: the keys and values of taken                                   *)
(***************************************************************************)
\* C15: in every state of the App every key of the record's taken map is a
\* syntactically valid date key and every value is a numeric timestamp or
\* null (the unknown-time marker).
C15_TakenKeysAndValuesValid ==
    phase = "open" =>
        \A k \in DOMAIN appSave.taken :
            /\ MatchesDateRegex(k)
            /\ typeof(appSave.taken[k]) = "number" \/ appSave.taken[k] = JsNull


(***************************************************************************)
(* The App: the record's lifecycle                                         *)
(***************************************************************************)
\* A fresh record on day now: the current version, no entries, startDate
\* the key of that day.
IsFreshRecord(record, now) ==
    /\ record.version = 2
    /\ DOMAIN record.taken = {}
    /\ record.startDate = PaddedKey(now)

\* C16: opening the page yields the coerced stored record when the stored
\* item can be read, is JSON and is accepted by coerceSave, and a fresh
\* record when there is no item, the item is empty, cannot be read, is not
\* JSON or is rejected; a confirmed clear leaves a fresh record.
C16_RecordLifecycle ==
    [][ /\ last'.op = "load" =>
              IF last'.outcome = "read" /\ storage.kind = "text"
                    /\ Acceptable(File(storage.text), clock)
              THEN appSave' = AcceptedRecord(File(storage.text), clock)
              ELSE IsFreshRecord(appSave', clock)
        /\ last'.op = "clear" => IsFreshRecord(appSave', clock) ]_vars

\* The page has been opened on a stored item that is not JSON: the record
\* is a fresh one.
C16_Witness ==
    /\ last.op = "load"
    /\ last.outcome = "read"
    /\ last.item = Item(MalformedText)
    /\ IsFreshRecord(appSave, clock)


(***************************************************************************)
(* The App: queued toggles                                                 *)
(***************************************************************************)
\* The queued toggles are of different days.
DistinctDays(updates) ==
    \A i, j \in 1..Len(updates) : updates[i].key = updates[j].key => i = j

\* C18: when React runs a queue of toggles of distinct days, the record
\* after it reflects every one of them (a day toggled on has an entry, a day
\* toggled off has none) and the entries of the other days are those of
\* before: no toggle is lost or applied to a stale record.
C18_QueuedTogglesAllApplied ==
    [][ last'.op = "flush" /\ DistinctDays(last'.batch) =>
            LET updates == last'.batch
                toggled == { updates[i].key : i \in 1..Len(updates) }
            IN  /\ \A i \in 1..Len(updates) :
                      (updates[i].key \in DOMAIN appSave'.taken) <=> updates[i].nextTaken
                /\ DOMAIN appSave'.taken \ toggled = DOMAIN appSave.taken \ toggled
                /\ \A k \in DOMAIN appSave.taken \ toggled :
                      appSave'.taken[k] = appSave.taken[k] ]_vars

\* Two toggles of different days were queued and have run: one day was
\* marked, the other unmarked, and the record shows both.
C18_Witness ==
    /\ last.op = "flush"
    /\ Len(last.batch) = 2
    /\ last.batch[1].key # last.batch[2].key
    /\ last.batch[1].nextTaken /\ ~last.batch[2].nextTaken
    /\ last.batch[1].key \in DOMAIN appSave.taken
    /\ last.batch[2].key \notin DOMAIN appSave.taken


(***************************************************************************)
(* The App: entries and the start date                                     *)
(***************************************************************************)
\* Every entry of the record is of startDate or a later day.
TakenOnOrAfterStartDate(record) ==
    \A k \in DOMAIN record.taken : SpeltOnOrBefore(record.startDate, k)

\* C19: a toggle, an applyStartDate, an import or a clear that finds every
\* key of taken on or after startDate leaves every key of taken on or after
\* startDate.
C19_EntriesOnOrAfterStartDate ==
    [][ last'.op \in {"toggle", "start", "import", "clear"}
            /\ TakenOnOrAfterStartDate(appSave)
          => TakenOnOrAfterStartDate(appSave') ]_vars


(***************************************************************************)
(* The App: the streaks displayed                                          *)
(***************************************************************************)
\* currentStreak and bestStreak as the last render computed them.
currentStreak == computeCurrentStreak(appSave, appToday)
bestStreak == computeBestStreak(appSave, appSave.startDate, appToday)

\* C20: in every state of the App the current streak displayed is no
\* longer than the best streak displayed.
C20_CurrentStreakAtMostBest ==
    phase = "open" => currentStreak.length <= bestStreak.length


(***************************************************************************)
(* The backward walk of computeCurrentStreak ends                          *)
(***************************************************************************)
\* C21: the loop of computeCurrentStreak looks up at most one key more than
\* the record has entries, and every call of the function returns.
C21_WalkEndsWithinEntries ==
    /\ [](walk.pc # "idle" => walk.visited <= Cardinality(DOMAIN call.save.taken) + 1)
    /\ (walk.pc = "start" ~> walk.pc = "done")

\* The function has returned a streak of all five entries of a record: the
\* loop looked up six keys.
C21_Witness ==
    /\ walk.pc = "done"
    /\ Cardinality(DOMAIN call.save.taken) = WindowLen
    /\ walk.len = WindowLen
    /\ walk.visited = WindowLen + 1
    /\ ret.value.length = WindowLen

====
